---- MODULE Spec2Model ----
(***************************************************************************)
(* mayan-cli (src/src/main.rs): the get-auction-state, get-bids and        *)
(* from-bytes32 subcommands as a state machine.  Strings are TLA+ strings, *)
(* byte vectors are sequences of 0..255.  Every network call is a send     *)
(* step followed by a receive step, so that the calls in flight are part   *)
(* of the state.                                                           *)
(***************************************************************************)
EXTENDS Integers, Sequences, FiniteSets, TLC

VARIABLES
    cmd,                 \* Commands variant being run (main.rs:536)
    input,               \* the positional <input> argument
    input_format,        \* --input-format of from-bytes32
    output_format,       \* --output-format of from-bytes32
    pc,                  \* position of main's flow
    inflight,            \* network calls sent and not yet returned
    netlog,              \* every network call issued, in order
    replies,             \* history: replies[k] tells how netlog[k] came back
    auction_state_addr,  \* the address string in use, or None
    signatures,          \* the listing get_signatures_for_address returned
    ledger,              \* what the RPC node answers for signatures[k]
    idx,                 \* position of the for loop of get_bid_history
    bids,                \* the Vec<BidEntry> being accumulated
    discovered,          \* history: the entries pushed with their loop positions
    account_data,        \* the payload get_account_data returned, or None
    bytes32,             \* the [u8; 32] of from_bytes32, or None
    result,              \* what the subcommand function returned, or None
    stdout,              \* what was printed to standard output
    stderr,              \* what was printed to standard error
    exit                 \* process exit code: None while running, 0, 1, or 101 (panic)

vars == <<cmd, input, input_format, output_format, pc, inflight, netlog, replies,
          auction_state_addr, account_data, signatures, ledger, idx, bids,
          discovered, bytes32, result, stdout, stderr, exit>>

\* Option<T>: the empty sequence is None, a one-element sequence is Some
None == << >>
Some(v) == <<v>>
IsSome(o) == Len(o) = 1

\* exit code of a Rust process that panicked
PANIC_EXIT == 101

----------------------------------------------------------------------------
(* Strings and bytes *)

Char(s, k) == SubSeq(s, k, k)

RECURSIVE RepStr(_, _)
RepStr(c, n) == IF n = 0 THEN "" ELSE c \o RepStr(c, n - 1)

Rep(b, n) == [k \in 1..n |-> b]

Min(a, b) == IF a < b THEN a ELSE b

Reverse(s) == [k \in 1..Len(s) |-> s[Len(s) + 1 - k]]

\* str::contains
Contains(s, m) ==
    \E k \in 1..(Len(s) - Len(m) + 1) : SubSeq(s, k, k + Len(m) - 1) = m

\* position of character c in string s, 0 when absent
IndexOf(s, c) ==
    IF \E k \in 1..Len(s) : Char(s, k) = c
    THEN CHOOSE k \in 1..Len(s) : Char(s, k) = c
    ELSE 0

\* the Bitcoin alphabet bs58 uses by default
Alphabet == "123456789ABCDEFGHJKLMNPQRSTUVWXYZabcdefghijkmnopqrstuvwxyz"

\* bs58's decode table: the value of each character of the alphabet
Base58Value ==
    [c \in {Char(Alphabet, k) : k \in 1..Len(Alphabet)} |-> IndexOf(Alphabet, c) - 1]

Base58Ok(s) == \A k \in 1..Len(s) : Char(s, k) \in DOMAIN Base58Value

Base58Digit(c) == Base58Value[c]

\* one pass of bs58's inner loop: out (little-endian) * 58 + val
RECURSIVE Base58MulAdd(_, _, _)
Base58MulAdd(out, k, val) ==
    IF k > Len(out)
    THEN IF val = 0 THEN out
         ELSE Base58MulAdd(Append(out, val % 256), k + 1, val \div 256)
    ELSE LET v == val + out[k] * 58
         IN  Base58MulAdd([out EXCEPT ![k] = v % 256], k + 1, v \div 256)

\* bs58's outer loop over the characters from position k on; out is the
\* number so far, least significant byte first
\* (58 < 256, so out never has more bytes than s has characters: the second
\* test is never true, and is there so that out is evaluated at every step
\* rather than accumulated as a nested unevaluated expression)
RECURSIVE Base58Acc(_, _, _)
Base58Acc(s, k, out) ==
    IF k > Len(s) \/ Len(out) > Len(s) THEN out
    ELSE Base58Acc(s, k + 1, Base58MulAdd(out, 1, Base58Digit(Char(s, k))))

RECURSIVE LeadingOnes(_, _)
LeadingOnes(s, k) ==
    IF k <= Len(s) /\ Char(s, k) = "1" THEN 1 + LeadingOnes(s, k + 1) ELSE 0

\* bs58::decode(s).into_vec(): [ok, bytes]
Base58Decode(s) ==
    IF ~Base58Ok(s) THEN [ok |-> FALSE, bytes |-> << >>]
    ELSE [ok |-> TRUE,
          bytes |-> Rep(0, LeadingOnes(s, 1)) \o Reverse(Base58Acc(s, 1, << >>))]

MAX_BASE58_LEN == 44
PUBKEY_BYTES == 32
MAX_BASE58_SIGNATURE_LEN == 88
SIGNATURE_BYTES == 64

\* Pubkey::from_str(s).is_ok()
PubkeyFromStrOk(s) ==
    LET dec == Base58Decode(s)
    IN  /\ Len(s) <= MAX_BASE58_LEN
        /\ dec.ok
        /\ Len(dec.bytes) = PUBKEY_BYTES

\* Signature::from_str(s)
SignatureFromStr(s) ==
    LET dec == Base58Decode(s)
    IN  IF Len(s) > MAX_BASE58_SIGNATURE_LEN
        THEN [ok |-> FALSE, err |-> "string decoded to wrong size for signature"]
        ELSE IF ~dec.ok
        THEN [ok |-> FALSE, err |-> "failed to decode string to signature"]
        ELSE IF Len(dec.bytes) /= SIGNATURE_BYTES
        THEN [ok |-> FALSE, err |-> "string decoded to wrong size for signature"]
        ELSE [ok |-> TRUE, val |-> dec.bytes]

\* u64::from_le_bytes as an integer; TLC's integers are 32 bits wide, so this
\* is for byte strings whose value stays below 2^31 (the bid amounts)
RECURSIVE U64FromLeBytes(_)
U64FromLeBytes(b) ==
    IF b = << >> THEN 0 ELSE b[1] + 256 * U64FromLeBytes(Tail(b))

\* u64::from_le_bytes in full width: the value as four base-65536 digits,
\* least significant first
U64Limbs(b) == [k \in 1..(Len(b) \div 2) |-> b[2 * k - 1] + 256 * b[2 * k]]

\* u64::to_le_bytes of four base-65536 digits
LimbsToLeBytes(v) ==
    [k \in 1..(2 * Len(v)) |->
        IF k % 2 = 1 THEN v[(k + 1) \div 2] % 256 ELSE v[k \div 2] \div 256]

\* the u64 of a small number
U64(n) == <<n % 65536, n \div 65536, 0, 0>>

----------------------------------------------------------------------------
(* AuctionState and its Borsh layout *)

\* the fields of struct AuctionState in declaration order, with their widths
AuctionStateLayout ==
    << [name |-> "bump",            size |-> 1,  type |-> "u8"],
       [name |-> "hash",            size |-> 32, type |-> "bytes"],
       [name |-> "initializer",     size |-> 32, type |-> "bytes"],
       [name |-> "close_epoch",     size |-> 8,  type |-> "u64"],
       [name |-> "amount_out_min",  size |-> 8,  type |-> "u64"],
       [name |-> "winner",          size |-> 32, type |-> "bytes"],
       [name |-> "amount_promised", size |-> 8,  type |-> "u64"],
       [name |-> "valid_from",      size |-> 8,  type |-> "u64"],
       [name |-> "seq_msg",         size |-> 8,  type |-> "u64"] >>

FieldNames == {AuctionStateLayout[k].name : k \in 1..Len(AuctionStateLayout)}

FieldIndex(n) == CHOOSE k \in 1..Len(AuctionStateLayout) : AuctionStateLayout[k].name = n

\* offset (0-based) of field k: the widths of the fields before it
RECURSIVE FieldOffset(_)
FieldOffset(k) ==
    IF k = 1 THEN 0 ELSE FieldOffset(k - 1) + AuctionStateLayout[k - 1].size

LayoutSize == FieldOffset(Len(AuctionStateLayout) + 1)

\* the value of field k read from buf (the reader has checked the length)
ReadField(buf, k) ==
    LET f == AuctionStateLayout[k]
        raw == SubSeq(buf, FieldOffset(k) + 1, FieldOffset(k) + f.size)
    IN  CASE f.type = "u8"    -> raw[1]
          [] f.type = "u64"   -> U64Limbs(raw)
          [] f.type = "bytes" -> raw

\* the bytes of field k written from its value
WriteField(v, k) ==
    LET f == AuctionStateLayout[k]
    IN  CASE f.type = "u8"    -> <<v>>
          [] f.type = "u64"   -> LimbsToLeBytes(v)
          [] f.type = "bytes" -> v

\* AuctionState::try_from_slice: the fields are read in order, a field that
\* runs past the end is an error, and so are bytes left over after the last
BorshTryFromSlice(buf) ==
    IF \E k \in 1..Len(AuctionStateLayout) :
          FieldOffset(k) + AuctionStateLayout[k].size > Len(buf)
    THEN [ok |-> FALSE, err |-> "Unexpected length of input"]
    ELSE IF Len(buf) > LayoutSize
    THEN [ok |-> FALSE, err |-> "Not all bytes read"]
    ELSE [ok |-> TRUE, val |-> [n \in FieldNames |-> ReadField(buf, FieldIndex(n))]]

\* BorshSerialize of an AuctionState
RECURSIVE BorshSerializeFrom(_, _)
BorshSerializeFrom(st, k) ==
    IF k > Len(AuctionStateLayout) THEN << >>
    ELSE WriteField(st[AuctionStateLayout[k].name], k) \o BorshSerializeFrom(st, k + 1)

BorshSerialize(st) == BorshSerializeFrom(st, 1)

DISCRIMINATOR_LEN == 8

\* the decoding without the fallback of main.rs:185-189
DecodeAccountDataNoFallback(data) ==
    IF Len(data) >= DISCRIMINATOR_LEN
    THEN LET skipped == BorshTryFromSlice(SubSeq(data, DISCRIMINATOR_LEN + 1, Len(data)))
         IN  IF skipped.ok THEN skipped
             ELSE [ok |-> FALSE,
                   err |-> "Failed to deserialize auction state data (tried both with and without discriminator)"]
    ELSE LET whole == BorshTryFromSlice(data)
         IN  IF whole.ok THEN whole
             ELSE [ok |-> FALSE, err |-> "Failed to deserialize auction state data"]

\* main.rs:181-194: skip the discriminator first, then from byte 0
DecodeAccountData(data) ==
    IF Len(data) >= DISCRIMINATOR_LEN
    THEN LET skipped == BorshTryFromSlice(
                 SubSeq(data, DISCRIMINATOR_LEN + 1, Len(data)))
             whole == BorshTryFromSlice(data)
         IN  IF skipped.ok THEN skipped
             ELSE IF whole.ok THEN whole
             ELSE [ok |-> FALSE,
                   err |-> "Failed to deserialize auction state data (tried both with and without discriminator)"]
    ELSE LET whole == BorshTryFromSlice(data)
         IN  IF whole.ok THEN whole
             ELSE [ok |-> FALSE, err |-> "Failed to deserialize auction state data"]

----------------------------------------------------------------------------
(* Address Resolver: get_auction_state_addr *)

\* StatusCode::is_success
IsSuccess(status) == status >= 200 /\ status <= 299

\* the fields serde requires of MayanOrderResponse
OrderResponseFields == {"auctionStateAddr", "id", "status"}

\* get_auction_state_addr without the status check of main.rs:137-142
ResolveResponseNoStatusCheck(r) ==
    IF ~r.sent
    THEN [ok |-> FALSE, err |-> "Failed to send request to Mayan API"]
    ELSE IF ~(r.json /\ OrderResponseFields \subseteq DOMAIN r.fields)
    THEN [ok |-> FALSE, err |-> "Failed to parse JSON response"]
    ELSE [ok |-> TRUE, val |-> r.fields.auctionStateAddr]

\* get_auction_state_addr applied to what the HTTP exchange produced
ResolveResponse(r) ==
    IF ~r.sent
    THEN [ok |-> FALSE, err |-> "Failed to send request to Mayan API"]
    ELSE IF ~IsSuccess(r.status)
    THEN [ok |-> FALSE,
          err |-> "API request failed with status: " \o ToString(r.status)]
    ELSE IF ~(r.json /\ OrderResponseFields \subseteq DOMAIN r.fields)
    THEN [ok |-> FALSE, err |-> "Failed to parse JSON response"]
    ELSE [ok |-> TRUE, val |-> r.fields.auctionStateAddr]

----------------------------------------------------------------------------
(* Bid History Reconstructor: get_bid_history *)

BidMarker == "Program log: Instruction: Bid"

TAKE_LIMIT == 100

BID_INSTRUCTION_INDEX == 2

AMOUNT_BYTES == 8

\* the marker test with absent log messages taken for a bid
HasBidMarkerOrNoLogs(meta) ==
    \/ ~IsSome(meta.log_messages)
    \/ \E k \in 1..Len(meta.log_messages[1]) :
          Contains(meta.log_messages[1][k], BidMarker)

\* main.rs:228-235: some log line contains the marker
HasBidMarker(meta) ==
    /\ IsSome(meta.log_messages)
    /\ \E k \in 1..Len(meta.log_messages[1]) :
          Contains(meta.log_messages[1][k], BidMarker)

\* main.rs:263-264: the amount out of the instruction data
ExtractAmount(data) ==
    LET dec == Base58Decode(data)
    IN  IF ~dec.ok
        THEN [kind |-> "panic", msg |-> "called Result::unwrap() on an Err value"]
        ELSE IF Len(dec.bytes) < AMOUNT_BYTES
        THEN [kind |-> "panic", msg |-> "slice index out of range"]
        ELSE [kind |-> "amount",
              val |-> U64FromLeBytes(SubSeq(dec.bytes,
                                            Len(dec.bytes) - AMOUNT_BYTES + 1,
                                            Len(dec.bytes)))]

\* main.rs:228-273: the loop body once the metadata is in hand
ProcessWithMeta(sig_info, tx, meta) ==
    IF ~HasBidMarker(meta)
    THEN [kind |-> "skip", printed |-> None]
    ELSE IF tx.encoding /= "Json"
    THEN [kind |-> "skip", printed |-> None]
    ELSE IF tx.message.kind /= "Parsed"
    THEN [kind |-> "skip", printed |-> None]
    ELSE IF Len(tx.message.instructions) < BID_INSTRUCTION_INDEX + 1
    THEN [kind |-> "panic", msg |-> "index out of bounds"]
    ELSE IF tx.message.instructions[BID_INSTRUCTION_INDEX + 1].kind /= "PartiallyDecoded"
    THEN [kind |-> "skip", printed |-> Some("Not a parsed instruction")]
    ELSE LET amount == ExtractAmount(tx.message.instructions[BID_INSTRUCTION_INDEX + 1].data)
         IN  IF amount.kind = "panic" THEN amount
             ELSE [kind |-> "entry",
                   entry |-> [signature  |-> sig_info.signature,
                              bidder     |-> tx.message.account_keys[1].pubkey,
                              bid_amount |-> amount.val,
                              slot       |-> sig_info.slot,
                              timestamp  |-> sig_info.block_time,
                              failed     |-> IsSome(meta.err)]]

\* the loop body with a transaction without metadata skipped, not an error
ProcessTxSkipNoMeta(sig_info, tx) ==
    IF ~IsSome(tx.meta)
    THEN [kind |-> "skip", printed |-> None]
    ELSE ProcessWithMeta(sig_info, tx, tx.meta[1])

\* main.rs:222-273: one pass of the loop body over a fetched transaction
ProcessTx(sig_info, tx) ==
    IF ~IsSome(tx.meta)
    THEN [kind |-> "err", err |-> "Failed to get transaction meta"]
    ELSE ProcessWithMeta(sig_info, tx, tx.meta[1])

\* e placed before the elements of sorted whose slot is not smaller
InsertBeforeEqual(sorted, e) ==
    LET p == Cardinality({j \in 1..Len(sorted) : sorted[j].slot < e.slot})
    IN  SubSeq(sorted, 1, p) \o <<e>> \o SubSeq(sorted, p + 1, Len(sorted))

\* e placed after every element of sorted whose slot is not greater
InsertBySlot(sorted, e) ==
    LET p == Cardinality({j \in 1..Len(sorted) : sorted[j].slot <= e.slot})
    IN  SubSeq(sorted, 1, p) \o <<e>> \o SubSeq(sorted, p + 1, Len(sorted))

\* the elements of b from position k on inserted one by one into acc
\* (acc never has more elements than b: the second test is never true, and
\* is there so that acc is evaluated at every step)
RECURSIVE SortFrom(_, _, _)
SortFrom(b, k, acc) ==
    IF k > Len(b) \/ Len(acc) > Len(b) THEN acc
    ELSE SortFrom(b, k + 1, InsertBySlot(acc, b[k]))

\* main.rs:277: bids.sort_by(|a, b| a.slot.cmp(&b.slot)), a stable sort
SortBySlot(b) == SortFrom(b, 1, << >>)

----------------------------------------------------------------------------
(* Bid list rendering: format_bid_history *)

\* The text is rendered with colouring off: the escape sequences the colored
\* crate wraps around labels and values on a colour terminal are left out.

\* main.rs:323-333 and 361-365: the status line of bid i (1-based here), made
\* together with the diff: empty unless there is a previous bid and both
\* amounts are positive
StatusStr(list, i) ==
    IF i > 1 /\ list[i].bid_amount > 0 /\ list[i - 1].bid_amount > 0
    THEN "  Status: " \o (IF list[i].failed THEN "Failed" ELSE "Success")
    ELSE ""

\* main.rs:323-333: the diff to the previous bid, signed, or "-"
DiffStr(list, i) ==
    IF i > 1 /\ list[i].bid_amount > 0 /\ list[i - 1].bid_amount > 0
    THEN LET diff == list[i].bid_amount - list[i - 1].bid_amount
         IN  IF diff >= 0 THEN "+" \o ToString(diff) ELSE ToString(diff)
    ELSE "-"

\* main.rs:335-366: the block pushed for bid i
FormatBid(list, i) ==
    LET bid == list[i]
    IN  "\nBid " \o ToString(i) \o ":"
        \o "\n  Signature: " \o bid.signature
        \o "\n  Bidder: " \o bid.bidder
        \o "\n  Amount: "
            \o (IF bid.bid_amount > 0 THEN ToString(bid.bid_amount) ELSE "Unknown")
        \o "\n  Diff: " \o DiffStr(list, i)
        \o "\n  Slot: " \o ToString(bid.slot)
        \o "\n  Timestamp: "
            \o ToString(IF IsSome(bid.timestamp) THEN bid.timestamp[1] ELSE 0)
        \o (IF StatusStr(list, i) /= "" THEN "\n" \o StatusStr(list, i) ELSE "")

\* main.rs:322-367: the blocks of the bids from position k on pushed onto acc
\* (Len(acc) is never negative: the second test is there so that acc is
\* evaluated at every step)
RECURSIVE FormatBidsFrom(_, _, _)
FormatBidsFrom(list, k, acc) ==
    IF k > Len(list) \/ Len(acc) < 0 THEN acc
    ELSE FormatBidsFrom(list, k + 1, acc \o FormatBid(list, k))

\* format_bid_history
FormatBidHistory(list) ==
    IF list = << >> THEN "Bid History: No bids found"
    ELSE FormatBidsFrom(list, 1,
                        "Bid History: " \o ToString(Len(list)) \o " bids found\n")

----------------------------------------------------------------------------
(* Conversion helpers: from_bytes32 *)

BYTES32_LEN == 32

UpperCase == "ABCDEFGHIJKLMNOPQRSTUVWXYZ"
LowerCase == "abcdefghijklmnopqrstuvwxyz"

\* str::to_lowercase (ASCII)
RECURSIVE ToLowercase(_)
ToLowercase(s) ==
    IF s = "" THEN ""
    ELSE LET c == Char(s, 1)
             u == IndexOf(UpperCase, c)
         IN  (IF u > 0 THEN Char(LowerCase, u) ELSE c) \o ToLowercase(Tail(s))

\* input.strip_prefix("0x").unwrap_or(input)
StripHexPrefix(s) ==
    IF Len(s) >= 2 /\ SubSeq(s, 1, 2) = "0x" THEN SubSeq(s, 3, Len(s)) ELSE s

HexDigits == "0123456789abcdef"

\* the value of a hex digit of either case, -1 for any other character
HexValue(c) == IndexOf(HexDigits, ToLowercase(c)) - 1

\* hex::decode
HexDecode(s) ==
    IF Len(s) % 2 = 1 THEN [ok |-> FALSE, err |-> "Odd number of digits"]
    ELSE IF \E k \in 1..Len(s) : HexValue(Char(s, k)) < 0
    THEN [ok |-> FALSE, err |-> "Invalid character"]
    ELSE [ok |-> TRUE,
          val |-> [k \in 1..(Len(s) \div 2) |->
                      16 * HexValue(Char(s, 2 * k - 1)) + HexValue(Char(s, 2 * k))]]

\* hex::encode
RECURSIVE HexEncode(_)
HexEncode(b) ==
    IF b = << >> THEN ""
    ELSE Char(HexDigits, (b[1] \div 16) + 1) \o Char(HexDigits, (b[1] % 16) + 1)
         \o HexEncode(Tail(b))

\* str::split(',')
RECURSIVE SplitComma(_)
SplitComma(s) ==
    LET p == IndexOf(s, ",")
    IN  IF p = 0 THEN <<s>>
        ELSE <<SubSeq(s, 1, p - 1)>> \o SplitComma(SubSeq(s, p + 1, Len(s)))

Whitespace == {" ", "\t", "\n", "\r"}

\* str::trim
Trim(s) ==
    LET keep == {k \in 1..Len(s) : Char(s, k) \notin Whitespace}
    IN  IF keep = {} THEN ""
        ELSE SubSeq(s, CHOOSE k \in keep : \A j \in keep : k <= j,
                       CHOOSE k \in keep : \A j \in keep : k >= j)

DecimalDigits == "0123456789"

\* the digits of d as a number, stopping at 256 (any value past u8::MAX)
RECURSIVE DigitsValue(_, _)
DigitsValue(d, acc) ==
    IF d = "" THEN acc
    ELSE DigitsValue(Tail(d), Min(256, 10 * acc + IndexOf(DecimalDigits, Char(d, 1)) - 1))

\* str::parse::<u8>: an optional '+', then one or more digits, at most 255
ParseU8(s) ==
    LET d == IF Len(s) > 1 /\ Char(s, 1) = "+" THEN Tail(s) ELSE s
    IN  IF s = "" THEN [ok |-> FALSE, err |-> "cannot parse integer from empty string"]
        ELSE IF \E k \in 1..Len(d) : IndexOf(DecimalDigits, Char(d, k)) = 0
        THEN [ok |-> FALSE, err |-> "invalid digit found in string"]
        ELSE IF DigitsValue(d, 0) > 255
        THEN [ok |-> FALSE, err |-> "number too large to fit in target type"]
        ELSE [ok |-> TRUE, val |-> DigitsValue(d, 0)]

\* main.rs:478-481: comma-separated byte values
ParseByteList(s) ==
    LET toks == SplitComma(s)
        vals == [k \in 1..Len(toks) |-> ParseU8(Trim(toks[k]))]
    IN  IF \E k \in 1..Len(toks) : ~vals[k].ok
        THEN [ok |-> FALSE, err |-> "Failed to parse byte value"]
        ELSE [ok |-> TRUE, val |-> [k \in 1..Len(toks) |-> vals[k].val]]

\* main.rs:470-489: the input bytes of from_bytes32
InputBytes(s, format) ==
    CASE ToLowercase(format) = "hex" ->
           LET dec == HexDecode(StripHexPrefix(s))
           IN  IF dec.ok THEN dec
               ELSE [ok |-> FALSE, err |-> "Failed to decode hex string"]
      [] ToLowercase(format) = "bytes" -> ParseByteList(s)
      [] OTHER ->
           [ok |-> FALSE,
            err |-> "Invalid input format '" \o format
                    \o "'. Valid formats are: hex, bytes"]

\* the padding put after the input bytes
PadRight32(bytes) == bytes \o Rep(0, BYTES32_LEN - Len(bytes))

\* main.rs:501-503: left-pad with zeros to 32 bytes
PadLeft32(bytes) == Rep(0, BYTES32_LEN - Len(bytes)) \o bytes

\* b.to_string() of every byte joined with ", "
RECURSIVE JoinBytes(_)
JoinBytes(b) ==
    IF b = << >> THEN ""
    ELSE IF Len(b) = 1 THEN ToString(b[1])
    ELSE ToString(b[1]) \o ", " \o JoinBytes(Tail(b))

\* main.rs:506-527: the line printed for the padded value
RenderBytes32(b32, format) ==
    CASE ToLowercase(format) = "hex" ->
           [ok |-> TRUE, val |-> "Hex: 0x" \o HexEncode(b32)]
      [] ToLowercase(format) = "bytes" ->
           [ok |-> TRUE, val |-> "Bytes: [" \o JoinBytes(b32) \o "]"]
      [] OTHER ->
           [ok |-> FALSE,
            err |-> "Invalid output format '" \o format
                    \o "'. Valid formats are: hex, bytes"]

----------------------------------------------------------------------------
(* The environment: what the user types, what the API and the RPC node answer *)

\* how many signatures a short listing holds at most
MaxSigs == 2
\* how far a long listing runs past TAKE_LIMIT
MaxExtra == 1
\* how many bytes may trail a serialized account
MaxTrail == 1

SystemProgram == RepStr("1", 32)
WrappedSol == "So11111111111111111111111111111111111111112"

\* <input> of get-auction-state and get-bids: two address literals, an order
\* id, a string outside the base58 alphabet, a base58 string that is too long
NetInputs == {SystemProgram, WrappedSol, "abc123", "0OIl", RepStr("1", 45)}

ApiResponses ==
    { [sent |-> FALSE, status |-> 0,   json |-> FALSE, fields |-> [id |-> ""]],
      [sent |-> TRUE,  status |-> 404, json |-> TRUE,  fields |-> [msg |-> "not found"]],
      [sent |-> TRUE,  status |-> 500, json |-> FALSE, fields |-> [id |-> ""]],
      [sent |-> TRUE,  status |-> 200, json |-> FALSE, fields |-> [id |-> ""]],
      [sent |-> TRUE,  status |-> 200, json |-> TRUE,
       fields |-> [id |-> "abc123", status |-> "ORDER_CREATED"]],
      [sent |-> TRUE,  status |-> 200, json |-> TRUE,
       fields |-> [auctionStateAddr |-> WrappedSol]],
      [sent |-> TRUE,  status |-> 200, json |-> TRUE,
       fields |-> [auctionStateAddr |-> WrappedSol, id |-> "abc123",
                   status |-> "ORDER_CREATED"]],
      [sent |-> TRUE,  status |-> 200, json |-> TRUE,
       fields |-> [auctionStateAddr |-> "", id |-> "abc123",
                   status |-> "ORDER_CREATED"]] }

SampleStates ==
    { [bump |-> 254, hash |-> Rep(171, 32), initializer |-> Rep(1, 32),
       close_epoch |-> U64(700), amount_out_min |-> U64(1000000),
       winner |-> Rep(2, 32), amount_promised |-> U64(1000500),
       valid_from |-> <<65535, 65535, 65535, 65535>>, seq_msg |-> U64(42)],
      [bump |-> 0, hash |-> Rep(0, 32), initializer |-> Rep(0, 32),
       close_epoch |-> U64(0), amount_out_min |-> U64(0), winner |-> Rep(0, 32),
       amount_promised |-> U64(0), valid_from |-> U64(0), seq_msg |-> U64(0)] }

\* an Anchor-style account discriminator, cut or padded to n bytes
Prefix(n) == SubSeq(<<33, 98, 17, 204, 5, 121, 250, 64>> \o Rep(9, n), 1, n)

PrefixLens == {0, 4, 7, 8, 9, 16}

TruncLens == {0, 7, 8, 129, 136}

Payloads ==
    { Prefix(p) \o BorshSerialize(s) \o Rep(0, q) :
        p \in PrefixLens, q \in 0..MaxTrail, s \in SampleStates }
    \cup { SubSeq(BorshSerialize(s), 1, k) : k \in TruncLens, s \in SampleStates }

AccountResponses ==
    {[ok |-> FALSE, data |-> << >>]} \cup {[ok |-> TRUE, data |-> d] : d \in Payloads}

\* how many bytes past 32 an input of from-bytes32 may decode to
MaxOver == 1

ConvInputs ==
    { "01", "0x01", "", "0x", "0g", "012", "0xAbCd", "1,2,3", " 7 , 255", "256",
      "1,,2", "+5", "-1", "12" }
    \cup { RepStr("ab", n) : n \in (BYTES32_LEN - 1)..(BYTES32_LEN + MaxOver) }
    \cup { RepStr("7,", n - 1) \o "9" : n \in (BYTES32_LEN - 1)..(BYTES32_LEN + MaxOver) }

InputFormats == {"hex", "bytes", "HEX", "utf8"}

OutputFormats == {"hex", "bytes", "Bytes", "base58"}

SigStr(n) == RepStr("1", 63) \o Char(Alphabet, n + 1)

SigInfo(n, slot, time) == [signature |-> SigStr(n), slot |-> slot, block_time |-> time]

Instr(kind, data) == [kind |-> kind, data |-> data]

\* a transaction of the usual bid shape: the bid is the third instruction
BidShape(data) ==
    [kind |-> "Parsed",
     account_keys |-> <<[pubkey |-> WrappedSol], [pubkey |-> SystemProgram]>>,
     instructions |-> <<Instr("Parsed", ""), Instr("Compiled", "3Bxs"),
                        Instr("PartiallyDecoded", data)>>]

\* a message with two instructions only
ShortShape ==
    [kind |-> "Parsed",
     account_keys |-> <<[pubkey |-> WrappedSol]>>,
     instructions |-> <<Instr("Parsed", ""), Instr("PartiallyDecoded", "0OIl")>>]

\* a message whose third instruction is not partially decoded
OtherShape(kind) ==
    [kind |-> "Parsed",
     account_keys |-> <<[pubkey |-> WrappedSol]>>,
     instructions |-> <<Instr("Parsed", ""), Instr("Parsed", ""),
                        Instr(kind, "BkPF5LgFnAb")>>]

BidLogs == Some(<<"Program 11111111111111111111111111111111 invoke [1]",
                  "Program log: Instruction: Bid",
                  "Program log: Instruction: BidAndClose">>)
OtherLogs == Some(<<"Program log: Instruction: Bi", "Program log: Instruction: Close">>)

Meta(err, logs) == Some([err |-> err, log_messages |-> logs])

Tx(ok, meta, encoding, message) ==
    [ok |-> ok, meta |-> meta, encoding |-> encoding, message |-> message]

\* (signature info, transaction) pairs the node may hold for an address
Profiles ==
    { \* bids: 8 bytes of data, data with leading bytes, a failed transaction
      [sig |-> SigInfo(1, 5, Some(1700000005)),
       tx  |-> Tx(TRUE, Meta(None, BidLogs), "Json", BidShape("BkPF5LgFnAb"))],
      [sig |-> SigInfo(2, 2, None),
       tx  |-> Tx(TRUE, Meta(Some("InstructionError"), BidLogs), "Json",
                  BidShape("6Swa6K1iUsYj"))],
      [sig |-> SigInfo(3, 5, Some(1700000006)),
       tx  |-> Tx(TRUE, Meta(None, BidLogs), "Json", BidShape("3Ex8ieTyEE8C3vo"))],
      [sig |-> SigInfo(4, 9, Some(1700000009)),
       tx  |-> Tx(TRUE, Meta(None, BidLogs), "Json", BidShape("BkPF5LgFnAb"))],
      \* no marker
      [sig |-> SigInfo(5, 3, None),
       tx  |-> Tx(TRUE, Meta(None, OtherLogs), "Json", BidShape("BkPF5LgFnAb"))],
      [sig |-> SigInfo(6, 4, None),
       tx  |-> Tx(TRUE, Meta(None, None), "Json", ShortShape)],
      \* RPC failures
      [sig |-> SigInfo(7, 6, None),
       tx  |-> Tx(TRUE, None, "Json", BidShape("BkPF5LgFnAb"))],
      [sig |-> SigInfo(8, 7, None),
       tx  |-> Tx(FALSE, None, "Json", BidShape("BkPF5LgFnAb"))],
      [sig |-> [signature |-> "badsig", slot |-> 8, block_time |-> None],
       tx  |-> Tx(FALSE, None, "Json", BidShape("BkPF5LgFnAb"))],
      \* marker, other shapes
      [sig |-> SigInfo(9, 1, None),
       tx  |-> Tx(TRUE, Meta(None, BidLogs), "Binary", BidShape("BkPF5LgFnAb"))],
      [sig |-> SigInfo(10, 1, None),
       tx  |-> Tx(TRUE, Meta(None, BidLogs), "Json",
                  [BidShape("BkPF5LgFnAb") EXCEPT !.kind = "Raw"])],
      [sig |-> SigInfo(11, 1, None),
       tx  |-> Tx(TRUE, Meta(None, BidLogs), "Json", OtherShape("Compiled"))],
      [sig |-> SigInfo(12, 1, None),
       tx  |-> Tx(TRUE, Meta(None, BidLogs), "Json", OtherShape("Parsed"))],
      [sig |-> SigInfo(13, 1, None),
       tx  |-> Tx(TRUE, Meta(None, BidLogs), "Json", ShortShape)],
      \* marker, data without an amount
      [sig |-> SigInfo(14, 1, None),
       tx  |-> Tx(TRUE, Meta(None, BidLogs), "Json", BidShape("2VfUX"))],
      [sig |-> SigInfo(15, 1, None),
       tx  |-> Tx(TRUE, Meta(None, BidLogs), "Json", BidShape("0OIl"))],
      \* a bid whose amount bytes are all zero
      [sig |-> SigInfo(16, 7, Some(1700000007)),
       tx  |-> Tx(TRUE, Meta(Some("InstructionError"), BidLogs), "Json",
                  BidShape("11111111"))] }

\* entry k of a long listing: most recent first, bids or other transactions
LongEntry(bid, k) ==
    [sig |-> SigInfo(1 + (k % 50), 1000 - (k \div 2), None),
     tx  |-> Tx(TRUE, Meta(None, IF bid THEN BidLogs ELSE OtherLogs), "Json",
                BidShape("BkPF5LgFnAb"))]

Listings ==
    {[ok |-> FALSE, entries |-> << >>]}
    \cup {[ok |-> TRUE, entries |-> e] : e \in UNION {[1..n -> Profiles] : n \in 0..MaxSigs}}
    \cup {[ok |-> TRUE, entries |-> [k \in 1..n |-> LongEntry(bid, k)]] :
            n \in (TAKE_LIMIT - 1)..(TAKE_LIMIT + MaxExtra), bid \in BOOLEAN}

----------------------------------------------------------------------------
(* main: get-auction-state and get-bids *)

NetCommands == {"GetAuctionState", "GetBids"}

args == <<cmd, input, input_format, output_format>>

\* a network call; at is the loop position a get_transaction is for, else 0
Call(kind, arg, at) == [kind |-> kind, arg |-> arg, at |-> at]

Reply(ok, body) == [ok |-> ok, body |-> body]

\* the calls of netlog that went to the RPC node
IsRpc(call) == call.kind /= "http_get"

\* an Err reaches main: it is printed to stderr and the process exits 1
Fail(prefix, err, res, fl, out) ==
    /\ pc' = "exited"
    /\ exit' = Some(1)
    /\ stderr' = Append(stderr, prefix \o err)
    /\ result' = res
    /\ inflight' = fl
    /\ stdout' = out
    /\ UNCHANGED netlog

\* a panic unwinds main: the message goes to stderr, the exit code is 101
Abort(msg, fl) ==
    /\ pc' = "exited"
    /\ exit' = Some(PANIC_EXIT)
    /\ stderr' = Append(stderr, "thread 'main' panicked: " \o msg)
    /\ inflight' = fl
    /\ UNCHANGED <<netlog, result>>

\* a network call leaves: it is logged and in flight until its answer is taken
Send(call, next, fl) ==
    /\ netlog' = Append(netlog, call)
    /\ inflight' = fl \cup {Len(netlog) + 1}
    /\ pc' = next
    /\ UNCHANGED <<result, stderr, exit>>

\* main.rs:167-177 and 200-206: with the address string in hand, parse it and
\* issue the first RPC call of the subcommand
WithAddress(addr, fl) ==
    /\ auction_state_addr' = Some(addr)
    /\ IF ~PubkeyFromStrOk(addr)
       THEN Fail("Error: ",
                 "Failed to parse auction state address as Pubkey",
                 Some([ok |-> FALSE,
                       err |-> "Failed to parse auction state address as Pubkey"]),
                 fl, stdout)
       ELSE IF cmd = "GetAuctionState"
       THEN Send(Call("get_account_data", addr, 0), "rpc_account", fl) /\ stdout' = stdout
       ELSE Send(Call("get_signatures_for_address", addr, 0), "rpc_sigs", fl)
            /\ stdout' = stdout

\* main with the resolver asked whatever the input is
StartAlwaysResolve ==
    /\ pc = "main"
    /\ cmd \in NetCommands
    /\ Send(Call("http_get", input, 0), "http", inflight)
    /\ UNCHANGED <<auction_state_addr, stdout>>
    /\ UNCHANGED <<args, replies, account_data, signatures, ledger, idx, bids,
                   discovered, bytes32>>

\* main.rs:156-165 and 565-580: an address literal is used as it is, anything
\* else goes to the resolver
Start ==
    /\ pc = "main"
    /\ cmd \in NetCommands
    /\ IF PubkeyFromStrOk(input)
       THEN WithAddress(input, inflight)
       ELSE /\ Send(Call("http_get", input, 0), "http", inflight)
            /\ UNCHANGED <<auction_state_addr, stdout>>
    /\ UNCHANGED <<args, replies, account_data, signatures, ledger, idx, bids,
                   discovered, bytes32>>

\* the resolver's HTTP exchange ends: main.rs:131-149, then 163 or 572-578
HttpRecv ==
    /\ pc = "http"
    /\ \E r \in ApiResponses :
         LET res == ResolveResponse(r)
             fl == inflight \ {Len(netlog)}
         IN  /\ replies' = Append(replies, Reply(r.sent, r))
             /\ IF res.ok
                THEN WithAddress(res.val, fl)
                ELSE /\ IF cmd = "GetAuctionState"
                        THEN Fail("Error: ", res.err, Some(res), fl, stdout)
                        ELSE Fail("Error getting auction state address: ",
                                  res.err, result, fl, stdout)
                     /\ UNCHANGED auction_state_addr
    /\ UNCHANGED <<args, account_data, signatures, ledger, idx, bids, discovered,
                   bytes32>>

\* get_account_data returns: main.rs:175-196, then 553-561
AccountRecv ==
    /\ pc = "rpc_account"
    /\ \E r \in AccountResponses :
         LET fl == inflight \ {Len(netlog)}
             dec == DecodeAccountData(r.data)
         IN  /\ replies' = Append(replies, Reply(r.ok, r.data))
             /\ IF ~r.ok
                THEN /\ Fail("Error: ", "Failed to fetch account data from Solana",
                             Some([ok |-> FALSE,
                                   err |-> "Failed to fetch account data from Solana"]),
                             fl, stdout)
                     /\ UNCHANGED account_data
                ELSE /\ account_data' = Some(r.data)
                     /\ IF dec.ok
                        THEN /\ pc' = "exited"
                             /\ exit' = Some(0)
                             /\ result' = Some(dec)
                             /\ stdout' = Append(stdout,
                                    [fn |-> "format_auction_state", arg |-> dec.val])
                             /\ inflight' = fl
                             /\ UNCHANGED <<netlog, stderr>>
                        ELSE Fail("Error: ", dec.err, Some(dec), fl, stdout)
    /\ UNCHANGED <<args, auction_state_addr, signatures, ledger, idx, bids,
                   discovered, bytes32>>

\* the loop without take(100)
VisitedAll(sigs) == Len(sigs)

\* how many signatures the loop visits: signatures.iter().take(100)
Visited(sigs) == Min(Len(sigs), TAKE_LIMIT)

\* main.rs:211-220 and 276-279: the top of the loop at position k with b
\* accumulated: the next fetch leaves, or the loop is over and the sorted
\* entries are returned and printed
LoopTop(sigs, k, b, out, fl) ==
    /\ idx' = k
    /\ IF k > Visited(sigs)
       THEN /\ bids' = SortBySlot(b)
            /\ pc' = "exited"
            /\ exit' = Some(0)
            /\ result' = Some([ok |-> TRUE, val |-> SortBySlot(b)])
            /\ stdout' = Append(out, [fn |-> "format_bid_history",
                                      arg |-> SortBySlot(b),
                                      text |-> FormatBidHistory(SortBySlot(b))])
            /\ inflight' = fl
            /\ UNCHANGED <<netlog, stderr>>
       ELSE LET signature == SignatureFromStr(sigs[k].signature)
            IN  /\ bids' = b
                /\ IF ~signature.ok
                   THEN Fail("Error: ", signature.err,
                             Some([ok |-> FALSE, err |-> signature.err]), fl, out)
                   ELSE /\ Send(Call("get_transaction", sigs[k].signature, k),
                                "rpc_tx", fl)
                        /\ stdout' = out

\* get_signatures_for_address returns: main.rs:204-211
SigsRecv ==
    /\ pc = "rpc_sigs"
    /\ \E w \in Listings :
         LET fl == inflight \ {Len(netlog)}
             sigs == [k \in 1..Len(w.entries) |-> w.entries[k].sig]
         IN  /\ replies' = Append(replies, Reply(w.ok, << >>))
             /\ IF ~w.ok
                THEN /\ Fail("Error: ",
                             "Failed to get signatures for auction state address",
                             Some([ok |-> FALSE,
                                   err |-> "Failed to get signatures for auction state address"]),
                             fl, stdout)
                     /\ UNCHANGED <<signatures, ledger, idx, bids>>
                ELSE /\ signatures' = sigs
                     /\ ledger' = [k \in 1..Len(w.entries) |-> w.entries[k].tx]
                     /\ LoopTop(sigs, 1, << >>, stdout, fl)
    /\ UNCHANGED <<args, auction_state_addr, account_data, discovered, bytes32>>

\* get_transaction_with_config returns for signatures[idx]: main.rs:213-274,
\* then the next pass of the loop
TxRecv ==
    /\ pc = "rpc_tx"
    /\ LET fl == inflight \ {Len(netlog)}
           tx == ledger[idx]
           o  == ProcessTx(signatures[idx], tx)
       IN  /\ replies' = Append(replies, Reply(tx.ok, << >>))
           /\ IF ~tx.ok
              THEN /\ Fail("Error: ", "RPC request error",
                           Some([ok |-> FALSE, err |-> "RPC request error"]), fl,
                           stdout)
                   /\ UNCHANGED <<idx, bids, discovered>>
              ELSE IF o.kind = "err"
              THEN /\ Fail("Error: ", o.err, Some([ok |-> FALSE, err |-> o.err]),
                           fl, stdout)
                   /\ UNCHANGED <<idx, bids, discovered>>
              ELSE IF o.kind = "panic"
              THEN /\ Abort(o.msg, fl)
                   /\ UNCHANGED <<idx, bids, discovered, stdout>>
              ELSE IF o.kind = "skip"
              THEN /\ LoopTop(signatures, idx + 1, bids,
                              IF IsSome(o.printed)
                              THEN Append(stdout,
                                          [fn |-> "println", arg |-> o.printed[1]])
                              ELSE stdout,
                              fl)
                   /\ UNCHANGED discovered
              ELSE /\ LoopTop(signatures, idx + 1, Append(bids, o.entry), stdout, fl)
                   /\ discovered' = Append(discovered,
                                           [at |-> idx, entry |-> o.entry])
    /\ UNCHANGED <<args, auction_state_addr, account_data, signatures, ledger,
                   bytes32>>

----------------------------------------------------------------------------
(* main: from-bytes32 *)

\* main.rs:622-631 with from_bytes32 (468-530): one run of the subcommand
FromBytes32 ==
    /\ pc = "main"
    /\ cmd = "FromBytes32"
    /\ pc' = "exited"
    /\ LET bytes == InputBytes(input, input_format)
           line  == RenderBytes32(PadLeft32(bytes.val), output_format)
       IN  IF ~bytes.ok
           THEN /\ result' = Some(bytes)
                /\ stderr' = Append(stderr, "Error: " \o bytes.err)
                /\ exit' = Some(1)
                /\ UNCHANGED <<bytes32, stdout>>
           ELSE IF Len(bytes.val) > BYTES32_LEN
           THEN /\ stderr' = Append(stderr,
                       "thread 'main' panicked: Input is too long: "
                       \o ToString(Len(bytes.val))
                       \o " bytes. Maximum is 32 bytes. Input: " \o input)
                /\ exit' = Some(PANIC_EXIT)
                /\ UNCHANGED <<bytes32, result, stdout>>
           ELSE /\ bytes32' = Some(PadLeft32(bytes.val))
                /\ IF line.ok
                   THEN /\ stdout' = Append(stdout, [fn |-> "println", arg |-> line.val])
                        /\ result' = Some([ok |-> TRUE, val |-> << >>])
                        /\ exit' = Some(0)
                        /\ UNCHANGED stderr
                   ELSE /\ result' = Some(line)
                        /\ stderr' = Append(stderr, "Error: " \o line.err)
                        /\ exit' = Some(1)
                        /\ UNCHANGED stdout
    /\ UNCHANGED <<args, inflight, netlog, replies, auction_state_addr, account_data,
                   signatures, ledger, idx, bids, discovered>>

----------------------------------------------------------------------------

Init ==
    /\ \/ /\ cmd \in NetCommands
          /\ input \in NetInputs
          /\ input_format = "hex"
          /\ output_format = "hex"
       \/ /\ cmd = "FromBytes32"
          /\ input \in ConvInputs
          /\ input_format \in InputFormats
          /\ output_format \in OutputFormats
    /\ pc = "main"
    /\ inflight = {}
    /\ netlog = << >>
    /\ replies = << >>
    /\ auction_state_addr = None
    /\ account_data = None
    /\ signatures = << >>
    /\ ledger = << >>
    /\ idx = 0
    /\ bids = << >>
    /\ discovered = << >>
    /\ bytes32 = None
    /\ result = None
    /\ stdout = << >>
    /\ stderr = << >>
    /\ exit = None

Next ==
    \/ Start
    \/ HttpRecv
    \/ AccountRecv
    \/ SigsRecv
    \/ TxRecv
    \/ FromBytes32

Spec == Init /\ [][Next]_vars

----------------------------------------------------------------------------
(* Properties *)

\* the inputs of NetInputs that are address literals: base58 of 32 bytes
AddressLiterals == {SystemProgram, WrappedSol}

\* positions of netlog holding a call of the given kind
CallsOf(kind) == {k \in 1..Len(netlog) : netlog[k].kind = kind}

RpcCalls == {k \in 1..Len(netlog) : netlog[k].kind /= "http_get"}

\* C1: in get-auction-state and get-bids the resolver's HTTP call is issued
\* if and only if the input is not an address literal: for a literal no HTTP
\* call is ever made and the input itself is the address in use; otherwise
\* the resolver is called exactly once, with the input, before any RPC call.
C1_ResolverIffNotAddress ==
    (cmd \in NetCommands /\ pc /= "main") =>
        IF input \in AddressLiterals
        THEN /\ CallsOf("http_get") = {}
             /\ auction_state_addr = Some(input)
             /\ netlog /= << >> /\ netlog[1].arg = input
        ELSE /\ CallsOf("http_get") = {1}
             /\ netlog[1].arg = input
             /\ \A k \in RpcCalls : k > 1 /\ Len(replies) >= 1

\* an order id went through the resolver and the RPC node was then asked
C1_Witness ==
    /\ cmd = "GetBids" /\ input = "abc123"
    /\ CallsOf("http_get") = {1}
    /\ RpcCalls /= {}
    /\ exit = Some(0)

\* what the claims call a failed resolver exchange, read off the response
ResolverFailed(r) ==
    \/ ~r.sent
    \/ r.status < 200 \/ r.status > 299
    \/ ~r.json
    \/ ~({"auctionStateAddr", "id", "status"} \subseteq DOMAIN r.fields)

\* C2: when the input is not an address and the resolver fails (the request
\* cannot be sent, the status is not a success, the body does not decode) the
\* command exits 1 with one diagnostic on stderr (naming the status when the
\* status is the failure), nothing on stdout, no RPC call and no second HTTP
\* call.
C2_ResolverFailureExits ==
    (cmd \in NetCommands /\ Len(replies) >= 1 /\ netlog[1].kind = "http_get"
       /\ ResolverFailed(replies[1].body)) =>
        /\ pc = "exited"
        /\ exit = Some(1)
        /\ Len(stderr) = 1
        /\ Contains(stderr[1], "Error")
        /\ (replies[1].body.sent /\ replies[1].body.status = 404) =>
               Contains(stderr[1], "API request failed with status: 404")
        /\ stdout = << >>
        /\ Len(netlog) = 1
        /\ inflight = {}

\* "abc123" to get-auction-state, and the API answered 404
C2_Witness ==
    /\ cmd = "GetAuctionState" /\ input = "abc123"
    /\ Len(replies) = 1 /\ replies[1].body.sent /\ replies[1].body.status = 404
    /\ exit = Some(1)

\* the outcome of get-auction-state is the decoding d (a try_from_slice result)
DecodedAs(d) ==
    /\ IsSome(result) /\ result[1].ok /\ d.ok
    /\ result[1].val = d.val
    /\ exit = Some(0)
    /\ stdout = <<[fn |-> "format_auction_state", arg |-> d.val]>>

DecodeFailed ==
    /\ IsSome(result) /\ ~result[1].ok
    /\ exit = Some(1)
    /\ stdout = << >>
    /\ Contains(stderr[1], "Failed to deserialize auction state data")

\* C3: a payload of at least 8 bytes decodes to the decoding of its bytes
\* after the first 8 when that succeeds, else to the decoding from byte 0
\* when that succeeds, else it is a decode error; under 8 bytes only the
\* decoding from byte 0 is tried.  The fixed layout is 137 bytes: a buffer of
\* 145 bytes decodes to the record serialized in its bytes after the first
\* 8, a buffer of 137 bytes to the record serialized in it.
C3_TwoAttemptDecoding ==
    IsSome(account_data) =>
        LET p == account_data[1]
            skipped == BorshTryFromSlice(SubSeq(p, 9, Len(p)))
            whole == BorshTryFromSlice(p)
        IN  /\ LayoutSize = 137
            /\ IF Len(p) >= 8 /\ skipped.ok THEN DecodedAs(skipped)
               ELSE IF whole.ok THEN DecodedAs(whole)
               ELSE DecodeFailed
            /\ Len(p) \in {137, 145} => exit = Some(0)
            /\ \A s \in SampleStates :
                 /\ SubSeq(p, 9, Len(p)) = BorshSerialize(s) => result[1].val = s
                 /\ p = BorshSerialize(s) => result[1].val = s

\* a buffer of exactly the layout's length was decoded by the fallback
C3_Witness ==
    /\ IsSome(account_data)
    /\ Len(account_data[1]) = 137
    /\ ~BorshTryFromSlice(SubSeq(account_data[1], 9, 137)).ok
    /\ exit = Some(0)
    /\ result[1].val.bump = 254

\* the transaction the node returned for call k of netlog
TxOf(k) == ledger[netlog[k].at]

\* call k of netlog is an RPC call of get_bid_history that failed
RpcFailedAt(k) ==
    /\ k <= Len(replies)
    /\ \/ netlog[k].kind = "get_signatures_for_address" /\ ~replies[k].ok
       \/ netlog[k].kind = "get_transaction"
          /\ (~replies[k].ok \/ ~IsSome(TxOf(k).meta))

\* C4: an RPC failure of get_bid_history (the listing, a transaction fetch,
\* missing metadata) at any position ends the operation: the result is an
\* error, exit code 1, no bid list is printed or returned, and the failed
\* call is the last network call made (no later fetch, no retry).
C4_RpcFailureAborts ==
    \A k \in 1..Len(netlog) :
        (cmd = "GetBids" /\ RpcFailedAt(k)) =>
            /\ pc = "exited"
            /\ exit = Some(1)
            /\ IsSome(result) /\ ~result[1].ok
            /\ DOMAIN result[1] = {"ok", "err"}
            /\ \A j \in 1..Len(stdout) : stdout[j].fn /= "format_bid_history"
            /\ Len(stderr) = 1
            /\ k = Len(netlog)
            /\ inflight = {}

\* a fetch failed after an entry had been accumulated
C4_Witness ==
    /\ cmd = "GetBids"
    /\ Len(netlog) >= 3 /\ RpcFailedAt(Len(netlog))
    /\ netlog[Len(netlog)].at = 2
    /\ Len(bids) = 1
    /\ exit = Some(1)

\* fetches of get_bid_history that came back with a transaction and metadata
FetchedTxs ==
    {k \in CallsOf("get_transaction") :
        k <= Len(replies) /\ replies[k].ok /\ IsSome(TxOf(k).meta)}

\* some log message of tx contains the bid marker
LogsHaveMarker(tx) ==
    /\ IsSome(tx.meta[1].log_messages)
    /\ \E n \in 1..Len(tx.meta[1].log_messages[1]) :
          Contains(tx.meta[1].log_messages[1][n], "Program log: Instruction: Bid")

\* the instruction list has a partially decoded instruction at index 2
HasBidInstruction(tx) ==
    /\ Len(tx.message.instructions) >= 3
    /\ tx.message.instructions[3].kind = "PartiallyDecoded"

\* tx carries the marker and does not have the shape of a bid
ShapeMismatch(tx) ==
    /\ LogsHaveMarker(tx)
    /\ \/ tx.encoding /= "Json"
       \/ tx.message.kind /= "Parsed"
       \/ ~HasBidInstruction(tx)

\* the loop took the transaction of call k as a skip: no entry for its
\* position, and the loop went on to the next position
SkippedAt(k) ==
    /\ idx > netlog[k].at
    /\ \A j \in 1..Len(discovered) : discovered[j].at /= netlog[k].at

\* C5: every fetched transaction that carries the marker and whose encoding
\* is not Json, whose message is not Parsed, or whose instruction list has no
\* partially decoded instruction at index 2 is skipped: no entry, the loop
\* goes on, no error and no abort.  (The claim as stated; the code panics on
\* an instruction list shorter than three.)
C5_ShapeMismatchIsSkipped ==
    \A k \in FetchedTxs : ShapeMismatch(TxOf(k)) => SkippedAt(k)

\* C6: a fetched transaction without the marker in its log messages (or
\* without log messages) never contributes an entry and never ends the run,
\* whatever its shape; every entry pushed, and every entry of the returned
\* sequence, comes from a transaction whose logs contain the marker.
C6_MarkerIsRequired ==
    /\ \A k \in FetchedTxs : ~LogsHaveMarker(TxOf(k)) => SkippedAt(k)
    /\ \A j \in 1..Len(discovered) : LogsHaveMarker(ledger[discovered[j].at])
    /\ (cmd = "GetBids" /\ IsSome(result) /\ result[1].ok) =>
          \A n \in 1..Len(result[1].val) :
             \E j \in 1..Len(discovered) : discovered[j].entry = result[1].val[n]

\* a transaction without log messages and with two instructions only was
\* passed over, and the run ended well with one bid
C6_Witness ==
    /\ cmd = "GetBids" /\ exit = Some(0)
    /\ Len(ledger) = 2
    /\ ~IsSome(ledger[1].meta[1].log_messages)
    /\ Len(ledger[1].message.instructions) = 2
    /\ Len(result[1].val) = 1

\* the entries of s whose slot is v, in the order of s
WithSlot(s, v) == LET Is(e) == e.slot = v IN SelectSeq(s, Is)

\* C7: the sequence a successful get_bid_history returns is the entries
\* pushed, each once, ascending by slot, the entries of one slot in the order
\* of their discovery.
C7_StableSortBySlot ==
    (cmd = "GetBids" /\ IsSome(result) /\ result[1].ok) =>
        LET out  == result[1].val
            disc == [j \in 1..Len(discovered) |-> discovered[j].entry]
        IN  /\ Len(out) = Len(disc)
            /\ \A n \in 1..(Len(out) - 1) : out[n].slot <= out[n + 1].slot
            /\ \A v \in {disc[j].slot : j \in 1..Len(disc)} \cup
                        {out[j].slot : j \in 1..Len(out)} :
                  WithSlot(out, v) = WithSlot(disc, v)
            /\ stdout[Len(stdout)].fn = "format_bid_history"
            /\ stdout[Len(stdout)].arg = out

\* two bids of one slot were found, the later-listed one with another
\* signature, and returned in the order found
C7_Witness ==
    /\ cmd = "GetBids" /\ exit = Some(0)
    /\ Len(discovered) = 2
    /\ discovered[1].entry.slot = discovered[2].entry.slot
    /\ discovered[1].entry.signature /= discovered[2].entry.signature
    /\ result[1].val = <<discovered[1].entry, discovered[2].entry>>

\* the bytes from-bytes32 reads out of the sample inputs
ConvExamples ==
    [hex   |-> [i \in {"01", "0x01"} |-> <<1>>] @@ ("12" :> <<18>>)
               @@ ("0xAbCd" :> <<171, 205>>) @@ ("" :> << >>) @@ ("0x" :> << >>),
     bytes |-> ("1,2,3" :> <<1, 2, 3>>) @@ (" 7 , 255" :> <<7, 255>>)
               @@ ("+5" :> <<5>>) @@ ("01" :> <<1>>) @@ ("12" :> <<12>>)]

\* C8: from-bytes32 on an input that decodes to n bytes: for n <= 32 the
\* 32-byte value is 32 - n zero bytes followed by the input bytes in order
\* (hex "01": 31 zero bytes, then 1), printed when the output format is one
\* of hex and bytes; for n > 32 the program panics and prints nothing to
\* stdout, whatever the output format.
C8_FromBytes32Pads ==
    (cmd = "FromBytes32" /\ pc = "exited" /\ InputBytes(input, input_format).ok) =>
        LET b == InputBytes(input, input_format).val
            n == Len(b)
            f == ToLowercase(input_format)
        IN  /\ input \in DOMAIN ConvExamples[f] => b = ConvExamples[f][input]
            /\ IF n <= 32
               THEN /\ IsSome(bytes32)
                    /\ Len(bytes32[1]) = 32
                    /\ \A k \in 1..32 :
                         bytes32[1][k] = IF k <= 32 - n THEN 0 ELSE b[k - (32 - n)]
                    /\ exit \in {Some(0), Some(1)}
                    /\ exit = Some(0) <=> output_format \in {"hex", "bytes", "Bytes"}
                    /\ exit = Some(0) => Len(stdout) = 1
                    /\ (input = "01" /\ f = "hex" /\ output_format = "hex") =>
                          stdout[1].arg = "Hex: 0x" \o RepStr("00", 31) \o "01"
               ELSE /\ exit = Some(101)
                    /\ stdout = << >>
                    /\ bytes32 = None

\* hex "01" was padded to 32 bytes and printed
C8_Witness ==
    /\ cmd = "FromBytes32" /\ input = "01" /\ input_format = "hex"
    /\ output_format = "bytes"
    /\ bytes32 = Some(Rep(0, 31) \o <<1>>)
    /\ exit = Some(0)

\* tx has everything the loop asks of a bid before it reads the amount
QualifiesAsBid(tx) ==
    /\ LogsHaveMarker(tx)
    /\ tx.encoding = "Json"
    /\ tx.message.kind = "Parsed"
    /\ HasBidInstruction(tx)

\* the amount the claim gives an instruction data string
ClaimedAmount(data) ==
    LET dec == Base58Decode(data)
    IN  IF dec.ok /\ Len(dec.bytes) >= 8
        THEN U64FromLeBytes(SubSeq(dec.bytes, Len(dec.bytes) - 7, Len(dec.bytes)))
        ELSE 0

\* C9: every transaction that qualifies as a bid gets an entry whose amount
\* is the little-endian u64 of the last 8 bytes of the base58-decoded data of
\* instruction 2, and 0 when the data does not decode or is shorter than 8
\* bytes.  (The claim as stated; the code panics on such data.)
C9_AmountOrZero ==
    \A k \in FetchedTxs :
        QualifiesAsBid(TxOf(k)) =>
            \E j \in 1..Len(discovered) :
                /\ discovered[j].at = netlog[k].at
                /\ discovered[j].entry.bid_amount =
                      ClaimedAmount(TxOf(k).message.instructions[3].data)

\* C10: transaction fetches go to the first 100 signatures of the listing
\* only, in the listing's order, one per signature, at most 100 in all; at
\* most one network call is in flight, and a call leaves only when every
\* earlier call has come back.
C10_SerialFetchesOfFirst100 ==
    cmd = "GetBids" =>
        /\ Cardinality(CallsOf("get_transaction")) <= 100
        /\ \A k \in CallsOf("get_transaction") :
             /\ netlog[k].at \in 1..100
             /\ netlog[k].at <= Len(signatures)
             /\ netlog[k].arg = signatures[netlog[k].at].signature
             /\ IF netlog[k - 1].kind = "get_transaction"
                THEN netlog[k].at = netlog[k - 1].at + 1
                ELSE netlog[k].at = 1
        /\ Cardinality(inflight) <= 1
        /\ inflight \subseteq {Len(netlog)}
        /\ Len(replies) = Len(netlog) - Cardinality(inflight)

\* a listing of more than 100 signatures was worked off with 100 fetches
C10_Witness ==
    /\ cmd = "GetBids" /\ exit = Some(0)
    /\ Len(signatures) > 100
    /\ Cardinality(CallsOf("get_transaction")) = 100
    /\ Len(result[1].val) = 100

\* the positions of text where the block of a bid starts
BlockStarts(text) == {k \in 1..(Len(text) - 4) : SubSeq(text, k, k + 4) = "\nBid "}

\* the block of the i-th bid of text: from its start to the next block's
Block(text, i) ==
    LET starts == BlockStarts(text)
        nth(j) == CHOOSE k \in starts : Cardinality({m \in starts : m <= k}) = j
    IN  SubSeq(text, nth(i),
               IF i < Cardinality(starts) THEN nth(i + 1) - 1 ELSE Len(text))

\* the block lists the bid as number i with its signature, bidder, amount,
\* diff, slot and timestamp
ListsBid(blk, i, bid) ==
    /\ Contains(blk, "Bid " \o ToString(i) \o ":")
    /\ Contains(blk, "Signature: " \o bid.signature)
    /\ Contains(blk, "Bidder: " \o bid.bidder)
    /\ Contains(blk, "Amount: " \o (IF bid.bid_amount > 0
                                    THEN ToString(bid.bid_amount) ELSE "Unknown"))
    /\ Contains(blk, "Diff: ")
    /\ Contains(blk, "Slot: " \o ToString(bid.slot))
    /\ Contains(blk, "Timestamp: "
                     \o ToString(IF IsSome(bid.timestamp) THEN bid.timestamp[1] ELSE 0))

\* C11: the text get-bids prints has one block per bid of the returned
\* sequence, with the bid's number, signature, bidder, amount, diff, slot and
\* timestamp, and every block, the first one and those of bids whose own or
\* preceding amount is zero included, carries the bid's status: Failed when
\* the metadata reported an error, Success otherwise.  (The claim as stated;
\* the code prints the status only together with a computed diff.)
C11_StatusForEveryBid ==
    (cmd = "GetBids" /\ exit = Some(0)) =>
        LET text == stdout[Len(stdout)].text
            out  == result[1].val
        IN  /\ Cardinality(BlockStarts(text)) = Len(out)
            /\ \A i \in 1..Len(out) :
                  /\ ListsBid(Block(text, i), i, out[i])
                  /\ Contains(Block(text, i),
                              "Status: " \o (IF out[i].failed THEN "Failed"
                                                              ELSE "Success"))

====
